---- MODULE Spec2Model ----
(***************************************************************************)
(* Online CQL training script (sota-implementations/cql/cql_online.py).    *)
(* The model follows main(): the outer collection loop, the inner update   *)
(* loop, the four-stage update() closure, evaluation scheduling, metric    *)
(* emission and teardown.  Collaborators (collector, replay buffer, loss   *)
(* module, optimizers, target updater, environments, logger) are modelled  *)
(* by the effect of the calls the script makes on them.                    *)
(***************************************************************************)
EXTENDS Integers, Sequences, FiniteSets, TLC

(* ----------------------------- bounds ---------------------------------- *)
MaxTotalFrames == 3
MaxFramesPerBatch == 2

(* configuration values the run is started with *)
TotalFramesChoices == 1..MaxTotalFrames
FramesPerBatchChoices == 1..MaxFramesPerBatch
InitRandomFramesChoices == {0, 2}
EnvPerCollectorChoices == {1}
\* utd_ratio is a float; it is carried as a number of halves (1 -> 0.5, 2 -> 1.0)
UtdRatioHalvesChoices == {1, 2}
BufferSizeChoices == {2, 4}
BatchSizeChoices == {1, 2}
LogIntervalChoices == {1, 2}
DeviceChoices == {"cpu", "cuda:0"}

VARIABLES
    cfg,                \* the resolved configuration
    pc,                 \* position of main()
    error,              \* exception that ended the run, "none" while running
    i,                  \* loop variable of the outer for loop
    collector,          \* collector: frames delivered, inference weights, shutdowns
    tensordict,         \* the batch returned by next(collector_iter)
    replay_buffer,      \* storage ring, write cursor, priorities, last sample served
                        \* and the sample whose priorities were written last
    collected_frames,
    current_frames,
    j,                  \* loop variable of the inner for loop
    log_loss_td,        \* rows written by log_loss_td[j] = loss_td
    sampled_tensordict, \* the batch returned by replay_buffer.sample()
    upd,                \* locals of the running update() call
    params,             \* parameter versions: policy, critic, alpha, alpha_prime, target
    grads,              \* gradient state per optimizer
    trace,              \* optimizer operations of the current update() call, in order
    counts,             \* how many times each operation has run
    modes,              \* exploration type and grad mode in effect
    metrics_to_log,     \* keys of the metrics dict of this iteration
    logged,             \* calls received by the logger
    envs                \* eval/train environment closed flags

vars == <<cfg, pc, error, i, collector, tensordict, replay_buffer, collected_frames,
          current_frames, j, log_loss_td, sampled_tensordict, upd, params, grads,
          trace, counts, modes, metrics_to_log, logged, envs>>

None == "None"

(* --------------------------- configuration ----------------------------- *)
\* Python int(): truncation toward zero of num / den
IntTrunc(num, den) == IF num >= 0 THEN num \div den ELSE -((-num) \div den)

NumUpdatesOf(c) == IntTrunc(c.env_per_collector * c.frames_per_batch * c.utd_ratio_halves, 2)

init_random_frames == cfg.init_random_frames
num_updates == NumUpdatesOf(cfg)
prb == cfg.prb
frames_per_batch == cfg.frames_per_batch
evaluation_interval == cfg.log_interval
device == cfg.device
with_lagrange == cfg.with_lagrange
\* make_continuous_cql_optimizer gives a multiplier optimizer only in Lagrange mode
alpha_prime_optim == IF cfg.with_lagrange THEN "alpha_prime_optim" ELSE None

Configs ==
    [ total_frames : TotalFramesChoices,
      frames_per_batch : FramesPerBatchChoices,
      init_random_frames : InitRandomFramesChoices,
      env_per_collector : EnvPerCollectorChoices,
      utd_ratio_halves : UtdRatioHalvesChoices,
      buffer_size : BufferSizeChoices,
      batch_size : BatchSizeChoices,
      log_interval : LogIntervalChoices,
      device : DeviceChoices,
      prb : BOOLEAN,
      with_lagrange : BOOLEAN,
      \* whether the metadata returned by loss_module.alpha_prime_loss carries
      \* a "loss_alpha_prime" entry (the script never writes that key itself)
      aprime_metadata_has_loss : BOOLEAN ]

(* ------------------------------ losses --------------------------------- *)
\* A loss value is kept symbolically: how many times each term enters it.
Terms == {"actor", "alpha", "q", "cql", "alpha_prime"}
ZeroLoss == [t \in Terms |-> 0]
Term(t) == [u \in Terms |-> IF u = t THEN 1 ELSE 0]
Add(a, b) == [t \in Terms |-> a[t] + b[t]]

(* --------------------------- initial state ----------------------------- *)
Optims == {"critic_optim", "alpha_prime_optim", "policy_optim", "alpha_optim"}

\* "no batch": the variable is not bound yet
NoBatch == [ids |-> <<>>, weights |-> 0, trainer |-> 0, flat |-> FALSE]
NoSample == [index |-> {}, device |-> "cpu", td_error |-> 0, sample_id |-> 0]

NoUpdate ==
    [ call |-> 0, input |-> NoSample, metadata |-> {}, td_error |-> 0,
      actor_metadata |-> 0, critic_at_call |-> 0,
      critic_read_by_actor |-> -1, log_prob_read_by_alpha |-> -1,
      q_loss |-> ZeroLoss, cql_loss |-> ZeroLoss, alpha_prime_loss |-> {},
      actor_loss |-> ZeroLoss, alpha_loss |-> ZeroLoss ]

ZeroCounts ==
    [ iterations |-> 0, rollouts |-> 0, syncs |-> 0, extends |-> 0,
      samples |-> 0, update_calls |-> 0, updates_done |-> 0,
      target_steps |-> 0, priority_updates |-> 0, evals |-> 0,
      iter_samples |-> 0, iter_updates |-> 0, iter_target_steps |-> 0,
      iter_priority_updates |-> 0, iter_evals |-> 0, iter_logs |-> 0 ]

Init ==
    /\ cfg \in {c \in Configs : c.with_lagrange \/ ~c.aprime_metadata_has_loss}
    /\ pc = "for_head"
    /\ error = "none"
    /\ i = -1
    /\ collector = [frames |-> 0, policy_version |-> 0, shutdowns |-> 0]
    /\ tensordict = NoBatch
    /\ replay_buffer = [storage |-> <<>>, priority |-> <<>>, cursor |-> 0,
                        last_sample |-> {}, written_back |-> 0]
    /\ collected_frames = 0
    /\ current_frames = 0
    /\ j = -1
    /\ log_loss_td = <<>>
    /\ sampled_tensordict = NoSample
    /\ upd = NoUpdate
    /\ params = [policy |-> 0, critic |-> 0, alpha |-> 0, alpha_prime |-> 0,
                 target |-> [steps |-> 0, critic_seen |-> 0]]
    /\ grads = [o \in Optims |-> "none"]
    /\ trace = <<>>
    /\ counts = ZeroCounts
    /\ modes = [exploration |-> "RANDOM", grad_enabled |-> TRUE]
    /\ metrics_to_log = {}
    /\ logged = <<>>
    /\ envs = [eval_closed |-> FALSE, train_closed |-> FALSE]

Bump(c, k) == [c EXCEPT ![k] = @ + 1]

Raise(kind) ==
    /\ pc' = "crashed"
    /\ error' = kind

(* ----------------------------- collector ------------------------------- *)
\* the iterator yields batches until total_frames frames have been delivered
CollectorExhausted(c, total) == c.frames >= total

\* one rollout of frames_per_batch frames, run with the inference weights
CollectorRollout(c, n, trainer_version) ==
    [ ids |-> [k \in 1..n |-> c.frames + k],
      weights |-> c.policy_version,
      trainer |-> trainer_version,
      flat |-> FALSE ]

\* update_policy_weights_(): the inference copy takes the trainer's parameters
SyncedCollector(c, trainer_version) == [c EXCEPT !.policy_version = trainer_version]

(* --------------------------- replay buffer ----------------------------- *)
\* one transition written at the cursor of the ring; a new entry gets the
\* default priority
WriteOne(rb, cap, id) ==
    [rb EXCEPT
        !.storage = IF Len(rb.storage) < cap
                    THEN Append(rb.storage, id)
                    ELSE [rb.storage EXCEPT ![rb.cursor + 1] = id],
        !.priority = IF Len(rb.priority) < cap
                     THEN Append(rb.priority, "default")
                     ELSE [rb.priority EXCEPT ![rb.cursor + 1] = "default"],
        !.cursor = (rb.cursor + 1) % cap]

RECURSIVE BufferExtend(_, _, _)
BufferExtend(rb, cap, ids) ==
    IF ids = <<>> THEN rb
    ELSE BufferExtend(WriteOne(rb, cap, Head(ids)), cap, Tail(ids))

\* the index sets a draw of batch_size positions (with replacement) can give
SampleIndexSets(rb, batch_size) ==
    {S \in SUBSET (1..Len(rb.storage)) : S # {} /\ Cardinality(S) <= batch_size}

\* the priority written for a batch: its TD signal when it carries one
PriorityOf(batch) == IF batch.td_error = 0 THEN "default" ELSE "td_error"

BufferUpdatePriority(rb, batch) ==
    [rb EXCEPT
        !.priority = [k \in 1..Len(rb.priority) |->
                        IF k \in batch.index THEN PriorityOf(batch) ELSE rb.priority[k]],
        !.written_back = batch.sample_id]

\* sample(): the batch drawn, and the buffer remembering what it served
BufferSampled(rb, S) == [rb EXCEPT !.last_sample = S]

SampledBatch(S, id) == [index |-> S, device |-> "cpu", td_error |-> 0, sample_id |-> id]

(* ------------------------------ main loop ------------------------------ *)
\* for i in range(cfg.collector.total_frames)
LoopBound == cfg.total_frames

ForHead ==
    /\ pc = "for_head"
    /\ IF i + 1 < LoopBound
       THEN /\ i' = i + 1
            /\ pc' = "collect"
            /\ counts' = [counts EXCEPT !.iterations = @ + 1,
                            !.iter_samples = 0, !.iter_updates = 0,
                            !.iter_target_steps = 0, !.iter_priority_updates = 0,
                            !.iter_evals = 0, !.iter_logs = 0]
       ELSE /\ pc' = "shutdown"
            /\ UNCHANGED <<i, counts>>
    /\ UNCHANGED <<cfg, error, collector, tensordict, replay_buffer, collected_frames,
                   current_frames, j, log_loss_td, sampled_tensordict, upd, params,
                   grads, trace, modes, metrics_to_log, logged, envs>>

\* tensordict = next(collector_iter)
Collect ==
    /\ pc = "collect"
    /\ IF CollectorExhausted(collector, cfg.total_frames)
       THEN /\ Raise("StopIteration")
            /\ UNCHANGED <<collector, tensordict, counts>>
       ELSE /\ tensordict' = CollectorRollout(collector, frames_per_batch, params.policy)
            /\ collector' = [collector EXCEPT !.frames = @ + frames_per_batch]
            /\ counts' = Bump(counts, "rollouts")
            /\ pc' = "update_policy_weights"
            /\ UNCHANGED error
    /\ UNCHANGED <<cfg, i, replay_buffer, collected_frames, current_frames, j,
                   log_loss_td, sampled_tensordict, upd, params, grads, trace,
                   modes, metrics_to_log, logged, envs>>

\* variant: the weights are never propagated to the collector
UpdatePolicyWeightsOmitted ==
    /\ pc = "update_policy_weights"
    /\ pc' = "extend"
    /\ UNCHANGED <<cfg, error, i, collector, tensordict, replay_buffer, collected_frames,
                   current_frames, j, log_loss_td, sampled_tensordict, upd, params,
                   grads, trace, counts, modes, metrics_to_log, logged, envs>>

\* collector.update_policy_weights_()
UpdatePolicyWeights ==
    /\ pc = "update_policy_weights"
    /\ collector' = SyncedCollector(collector, params.policy)
    /\ counts' = Bump(counts, "syncs")
    /\ pc' = "extend"
    /\ UNCHANGED <<cfg, error, i, tensordict, replay_buffer, collected_frames,
                   current_frames, j, log_loss_td, sampled_tensordict, upd, params,
                   grads, trace, modes, metrics_to_log, logged, envs>>

\* variant: the batch is written to the buffer twice
ExtendTwice ==
    /\ pc = "extend"
    /\ tensordict' = [tensordict EXCEPT !.flat = TRUE]
    /\ current_frames' = Len(tensordict.ids)
    /\ replay_buffer' =
          BufferExtend(BufferExtend(replay_buffer, cfg.buffer_size, tensordict.ids),
                       cfg.buffer_size, tensordict.ids)
    /\ collected_frames' = collected_frames + Len(tensordict.ids)
    /\ counts' = Bump(counts, "extends")
    /\ pc' = "gate"
    /\ UNCHANGED <<cfg, error, i, collector, j, log_loss_td, sampled_tensordict, upd,
                   params, grads, trace, modes, metrics_to_log, logged, envs>>

\* tensordict.reshape(-1); replay_buffer.extend(...); collected_frames += current_frames
Extend ==
    /\ pc = "extend"
    /\ tensordict' = [tensordict EXCEPT !.flat = TRUE]
    /\ current_frames' = Len(tensordict.ids)
    /\ replay_buffer' = BufferExtend(replay_buffer, cfg.buffer_size, tensordict.ids)
    /\ collected_frames' = collected_frames + Len(tensordict.ids)
    /\ counts' = Bump(counts, "extends")
    /\ pc' = "gate"
    /\ UNCHANGED <<cfg, error, i, collector, j, log_loss_td, sampled_tensordict, upd,
                   params, grads, trace, modes, metrics_to_log, logged, envs>>

\* variant: the warm-up gate is left out
PastWarmupAlways == TRUE

\* variant: strict comparison with the warmup threshold
PastWarmupStrict == collected_frames > init_random_frames

\* if collected_frames >= init_random_frames
PastWarmup == collected_frames >= init_random_frames

Gate ==
    /\ pc = "gate"
    /\ IF PastWarmup
       THEN /\ log_loss_td' = <<>>
            /\ j' = -1
            /\ pc' = "inner_head"
       ELSE /\ pc' = "metrics"
            /\ UNCHANGED <<log_loss_td, j>>
    /\ UNCHANGED <<cfg, error, i, collector, tensordict, replay_buffer, collected_frames,
                   current_frames, sampled_tensordict, upd, params, grads, trace,
                   counts, modes, metrics_to_log, logged, envs>>

\* for j in range(num_updates)
InnerHead ==
    /\ pc = "inner_head"
    /\ IF j + 1 < num_updates
       THEN /\ j' = j + 1
            /\ pc' = "sample"
       ELSE /\ pc' = "metrics"
            /\ UNCHANGED j
    /\ UNCHANGED <<cfg, error, i, collector, tensordict, replay_buffer, collected_frames,
                   current_frames, log_loss_td, sampled_tensordict, upd, params, grads,
                   trace, counts, modes, metrics_to_log, logged, envs>>

\* sampled_tensordict = replay_buffer.sample()
Sample ==
    /\ pc = "sample"
    /\ \E S \in SampleIndexSets(replay_buffer, cfg.batch_size) :
          /\ sampled_tensordict' = SampledBatch(S, counts.samples + 1)
          /\ replay_buffer' = BufferSampled(replay_buffer, S)
    /\ counts' = Bump(Bump(counts, "samples"), "iter_samples")
    /\ pc' = "to_device"
    /\ UNCHANGED <<cfg, error, i, collector, tensordict, collected_frames,
                   current_frames, j, log_loss_td, upd, params, grads, trace, modes,
                   metrics_to_log, logged, envs>>

\* .to(device) when the batch is elsewhere, .clone() otherwise
ToDevice ==
    /\ pc = "to_device"
    /\ sampled_tensordict' =
          IF sampled_tensordict.device # device
          THEN [sampled_tensordict EXCEPT !.device = device]
          ELSE sampled_tensordict
    /\ pc' = "update"
    /\ UNCHANGED <<cfg, error, i, collector, tensordict, replay_buffer, collected_frames,
                   current_frames, j, log_loss_td, upd, params, grads, trace, counts,
                   modes, metrics_to_log, logged, envs>>

(* ------------------------------ update() ------------------------------ *)
Did(o, op) == Append(trace, <<o, op>>)

\* metadata returned by the loss module's methods
QLossMetadata == {"td_error"}
CqlLossMetadata == {}
ActorLossMetadata == {"log_prob"}
AlphaLossMetadata == {}
AlphaPrimeLossMetadata ==
    IF cfg.aprime_metadata_has_loss THEN {"loss_alpha_prime"} ELSE {}

\* sampled_tensordict_input = sampled_tensordict.copy()
UpdateCall ==
    /\ pc = "update"
    /\ upd' = [NoUpdate EXCEPT !.call = counts.update_calls + 1,
                               !.input = sampled_tensordict,
                               !.critic_at_call = params.critic]
    /\ trace' = <<>>
    /\ counts' = Bump(Bump(counts, "update_calls"), "iter_updates")
    /\ pc' = "critic_zero_grad"
    /\ UNCHANGED <<cfg, error, i, collector, tensordict, replay_buffer, collected_frames,
                   current_frames, j, log_loss_td, sampled_tensordict, params, grads,
                   modes, metrics_to_log, logged, envs>>

\* <optimizer>.zero_grad()
ZeroGrad(at, o, next) ==
    /\ pc = at
    /\ grads' = [grads EXCEPT ![o] = "zero"]
    /\ trace' = Did(o, "zero_grad")
    /\ pc' = next
    /\ UNCHANGED <<cfg, error, i, collector, tensordict, replay_buffer, collected_frames,
                   current_frames, j, log_loss_td, sampled_tensordict, upd, params,
                   counts, modes, metrics_to_log, logged, envs>>

\* <loss>.backward()
Backward(at, o, next) ==
    /\ pc = at
    /\ grads' = [grads EXCEPT ![o] = "backward"]
    /\ trace' = Did(o, "backward")
    /\ pc' = next
    /\ UNCHANGED <<cfg, error, i, collector, tensordict, replay_buffer, collected_frames,
                   current_frames, j, log_loss_td, sampled_tensordict, upd, params,
                   counts, modes, metrics_to_log, logged, envs>>

\* <optimizer>.step(): only the optimizer's own parameter group moves
SteppedParams(p, group) == [p EXCEPT ![group] = @ + 1]

\* variant: every optimizer step also refreshes the target parameters
OptimStepMovingTarget(at, o, group, next) ==
    /\ pc = at
    /\ params' = [SteppedParams(params, group) EXCEPT
                     !.target = [steps |-> @.steps + 1, critic_seen |-> params.critic]]
    /\ grads' = [grads EXCEPT ![o] = "applied"]
    /\ trace' = Did(o, "step")
    /\ pc' = next
    /\ UNCHANGED <<cfg, error, i, collector, tensordict, replay_buffer, collected_frames,
                   current_frames, j, log_loss_td, sampled_tensordict, upd, counts,
                   modes, metrics_to_log, logged, envs>>

OptimStep(at, o, group, next) ==
    /\ pc = at
    /\ params' = SteppedParams(params, group)
    /\ grads' = [grads EXCEPT ![o] = "applied"]
    /\ trace' = Did(o, "step")
    /\ pc' = next
    /\ UNCHANGED <<cfg, error, i, collector, tensordict, replay_buffer, collected_frames,
                   current_frames, j, log_loss_td, sampled_tensordict, upd, counts,
                   modes, metrics_to_log, logged, envs>>

\* a loss computation: new locals, one more entry of the trace
LossStep(at, o, newupd, next) ==
    /\ pc = at
    /\ upd' = newupd
    /\ trace' = Did(o, "loss")
    /\ pc' = next
    /\ UNCHANGED <<cfg, error, i, collector, tensordict, replay_buffer, collected_frames,
                   current_frames, j, log_loss_td, sampled_tensordict, params, grads,
                   counts, modes, metrics_to_log, logged, envs>>

\* metadata.update(metadata): the dict is merged into itself
MergedCqlMetadata(metadata, metadata_cql) == metadata \cup metadata

CriticZeroGrad == ZeroGrad("critic_zero_grad", "critic_optim", "critic_loss")

\* q_loss, cql_loss, metadata.update(metadata), q_loss = q_loss + cql_loss
CriticLoss ==
    LossStep("critic_loss", "critic_optim",
             [upd EXCEPT !.metadata = MergedCqlMetadata(QLossMetadata, CqlLossMetadata),
                         !.td_error = upd.call,
                         !.cql_loss = Term("cql"),
                         !.q_loss = Add(Term("q"), Term("cql"))],
             "critic_backward")

CriticBackward == Backward("critic_backward", "critic_optim", "critic_step")

\* variant: the multiplier stage is never entered
AfterCriticStepWithoutLagrange == "policy_zero_grad"

\* if loss_module.with_lagrange
AfterCriticStep == IF with_lagrange THEN "alpha_prime_zero_grad" ELSE "policy_zero_grad"

CriticStep == OptimStep("critic_step", "critic_optim", "critic", AfterCriticStep)

AlphaPrimeZeroGrad ==
    ZeroGrad("alpha_prime_zero_grad", "alpha_prime_optim", "alpha_prime_loss")

AlphaPrimeLoss ==
    LossStep("alpha_prime_loss", "alpha_prime_optim",
             [upd EXCEPT !.alpha_prime_loss = {Term("alpha_prime")},
                         !.metadata = @ \cup AlphaPrimeLossMetadata],
             "alpha_prime_backward")

AlphaPrimeBackward ==
    Backward("alpha_prime_backward", "alpha_prime_optim", "alpha_prime_step")

AlphaPrimeStep ==
    OptimStep("alpha_prime_step", "alpha_prime_optim", "alpha_prime", "policy_zero_grad")

PolicyZeroGrad == ZeroGrad("policy_zero_grad", "policy_optim", "actor_loss")

\* variant: actor_loss evaluated against the critics as they were at the call
CriticSeenByActorLossFrozen == upd.critic_at_call

\* the critic parameters loss_module.actor_loss evaluates: the module's current ones
CriticSeenByActorLoss == params.critic

\* actor_loss, actor_metadata = loss_module.actor_loss(sampled_tensordict_input)
ActorLoss ==
    LossStep("actor_loss", "policy_optim",
             [upd EXCEPT !.actor_loss = Term("actor"),
                         !.actor_metadata = upd.call,
                         !.critic_read_by_actor = CriticSeenByActorLoss,
                         !.metadata = @ \cup ActorLossMetadata],
             "actor_backward")

ActorBackward == Backward("actor_backward", "policy_optim", "policy_step")

PolicyStep == OptimStep("policy_step", "policy_optim", "policy", "alpha_zero_grad")

AlphaZeroGrad == ZeroGrad("alpha_zero_grad", "alpha_optim", "alpha_loss")

\* the argument of loss_module.alpha_loss: this call's actor_metadata
AlphaLossInput == upd.actor_metadata

AlphaLoss ==
    LossStep("alpha_loss", "alpha_optim",
             [upd EXCEPT !.alpha_loss = Term("alpha"),
                         !.log_prob_read_by_alpha = AlphaLossInput,
                         !.metadata = @ \cup AlphaLossMetadata],
             "alpha_backward")

AlphaBackward == Backward("alpha_backward", "alpha_optim", "alpha_step")

AlphaStep == OptimStep("alpha_step", "alpha_optim", "alpha", "update_return")

\* keys of loss_td after the four assignments
LossTdKeys == upd.metadata \cup {"loss_actor", "loss_qvalue", "loss_cql", "loss_alpha"}

\* loss = actor_loss + alpha_loss + q_loss (+ alpha_prime_loss)
CombinedLoss(alpha_prime_loss) ==
    LET loss == Add(Add(upd.actor_loss, upd.alpha_loss), upd.q_loss)
    IN  IF alpha_prime_optim # None THEN Add(loss, alpha_prime_loss) ELSE loss

\* the record update() returns
LossTd ==
    [ keys |-> LossTdKeys \cup {"loss"},
      td_error |-> upd.td_error,
      loss_actor |-> upd.actor_loss,
      loss_qvalue |-> upd.q_loss,
      loss_cql |-> upd.cql_loss,
      loss_alpha |-> upd.alpha_loss,
      loss_alpha_prime |-> IF "loss_alpha_prime" \in LossTdKeys
                           THEN {Term("alpha_prime")} ELSE {},
      loss |-> CombinedLoss(Term("alpha_prime")) ]

\* variant: the target step is left out after an update
AfterUpdateWithoutTargetStep == IF prb THEN "update_priority" ELSE "inner_head"

\* with timeit("target net"): the statement that follows the update call
AfterUpdate == "target_step"

\* loss_td = TensorDict(metadata) ... return loss_td.detach(); log_loss_td[j] = loss_td
UpdateReturn ==
    /\ pc = "update_return"
    /\ IF alpha_prime_optim # None /\ "loss_alpha_prime" \notin LossTdKeys
       THEN /\ Raise("KeyError")
            /\ UNCHANGED <<log_loss_td, counts>>
       ELSE /\ log_loss_td' = Append(log_loss_td, LossTd)
            /\ counts' = Bump(counts, "updates_done")
            /\ pc' = AfterUpdate
            /\ UNCHANGED error
    /\ UNCHANGED <<cfg, i, collector, tensordict, replay_buffer, collected_frames,
                   current_frames, j, sampled_tensordict, upd, params, grads, trace,
                   modes, metrics_to_log, logged, envs>>

(* ------------------------- after each update --------------------------- *)
\* target_net_updater.step(): the targets move toward the current critics
TargetUpdaterStep(p) ==
    [p EXCEPT !.target = [steps |-> @.steps + 1, critic_seen |-> p.critic]]

\* variant: priorities written back whatever the buffer type
AfterTargetStepAlwaysPriority == "update_priority"

\* if prb
AfterTargetStep == IF prb THEN "update_priority" ELSE "inner_head"

TargetStep ==
    /\ pc = "target_step"
    /\ params' = TargetUpdaterStep(params)
    /\ counts' = Bump(Bump(counts, "target_steps"), "iter_target_steps")
    /\ pc' = AfterTargetStep
    /\ UNCHANGED <<cfg, error, i, collector, tensordict, replay_buffer, collected_frames,
                   current_frames, j, log_loss_td, sampled_tensordict, upd, grads,
                   trace, modes, metrics_to_log, logged, envs>>

\* replay_buffer.update_priority(sampled_tensordict)
UpdatePriority ==
    /\ pc = "update_priority"
    /\ replay_buffer' = BufferUpdatePriority(replay_buffer, sampled_tensordict)
    /\ counts' = Bump(Bump(counts, "priority_updates"), "iter_priority_updates")
    /\ pc' = "inner_head"
    /\ UNCHANGED <<cfg, error, i, collector, tensordict, collected_frames,
                   current_frames, j, log_loss_td, sampled_tensordict, upd, params,
                   grads, trace, modes, metrics_to_log, logged, envs>>

(* ------------------------- metrics, evaluation ------------------------- *)
\* log_loss_td.get(key): the key exists once a row has been written
LogLossTdHas(key) == \E r \in 1..Len(log_loss_td) : key \in log_loss_td[r].keys

TrainLossKeys ==
    {"train/loss_actor", "train/loss_qvalue", "train/loss_alpha",
     "train/sampling_time", "train/training_time"}
    \cup (IF alpha_prime_optim # None THEN {"train/loss_alpha_prime"} ELSE {})

LossKeysRead ==
    {"loss_actor", "loss_qvalue", "loss_alpha"}
    \cup (IF alpha_prime_optim # None THEN {"loss_alpha_prime"} ELSE {})

\* episode statistics and the training-loss means of this iteration
Metrics ==
    /\ pc = "metrics"
    /\ IF PastWarmup /\ \E k \in LossKeysRead : ~LogLossTdHas(k)
       THEN /\ Raise("KeyError")
            /\ UNCHANGED metrics_to_log
       ELSE /\ \E episode_done \in BOOLEAN :
                 metrics_to_log' =
                    (IF episode_done
                     THEN {"train/reward", "train/episode_length"} ELSE {})
                    \cup (IF PastWarmup THEN TrainLossKeys ELSE {})
            /\ pc' = "eval_check"
            /\ UNCHANGED error
    /\ UNCHANGED <<cfg, i, collector, tensordict, replay_buffer, collected_frames,
                   current_frames, j, log_loss_td, sampled_tensordict, upd, params,
                   grads, trace, counts, modes, logged, envs>>

\* variant: the previous counter taken at this iteration's frame count
prev_test_frame_unshifted == (i * frames_per_batch) \div evaluation_interval

prev_test_frame == ((i - 1) * frames_per_batch) \div evaluation_interval
cur_test_frame == (i * frames_per_batch) \div evaluation_interval
\* final = current_frames >= collector.total_frames
final == current_frames >= cfg.total_frames

EvalDue == (i >= 1 /\ prev_test_frame < cur_test_frame) \/ final

EvalCheck ==
    /\ pc = "eval_check"
    /\ pc' = IF EvalDue THEN "eval_enter" ELSE "log_metrics"
    /\ UNCHANGED <<cfg, error, i, collector, tensordict, replay_buffer, collected_frames,
                   current_frames, j, log_loss_td, sampled_tensordict, upd, params,
                   grads, trace, counts, modes, metrics_to_log, logged, envs>>

\* with set_exploration_type(DETERMINISTIC), torch.no_grad()
EvalEnter ==
    /\ pc = "eval_enter"
    /\ modes' = [exploration |-> "DETERMINISTIC", grad_enabled |-> FALSE]
    /\ pc' = "eval_rollout"
    /\ UNCHANGED <<cfg, error, i, collector, tensordict, replay_buffer, collected_frames,
                   current_frames, j, log_loss_td, sampled_tensordict, upd, params,
                   grads, trace, counts, metrics_to_log, logged, envs>>

\* variant: the evaluation trajectory is written to the replay buffer
EvalRolloutStored ==
    /\ pc = "eval_rollout"
    /\ metrics_to_log' = metrics_to_log \cup {"eval/reward", "eval/time"}
    /\ replay_buffer' = BufferExtend(replay_buffer, cfg.buffer_size, <<0>>)
    /\ counts' = Bump(Bump(counts, "evals"), "iter_evals")
    /\ pc' = "eval_exit"
    /\ UNCHANGED <<cfg, error, i, collector, tensordict, collected_frames,
                   current_frames, j, log_loss_td, sampled_tensordict, upd, params,
                   grads, trace, modes, logged, envs>>

\* eval_env.rollout(...); metrics_to_log["eval/reward"], ["eval/time"]
EvalRollout ==
    /\ pc = "eval_rollout"
    /\ metrics_to_log' = metrics_to_log \cup {"eval/reward", "eval/time"}
    /\ counts' = Bump(Bump(counts, "evals"), "iter_evals")
    /\ pc' = "eval_exit"
    /\ UNCHANGED <<cfg, error, i, collector, tensordict, replay_buffer, collected_frames,
                   current_frames, j, log_loss_td, sampled_tensordict, upd, params,
                   grads, trace, modes, logged, envs>>

\* variant: the evaluation block emits the metrics itself before the
\* iteration's own emission
EvalExitLogging ==
    /\ pc = "eval_exit"
    /\ modes' = [exploration |-> "RANDOM", grad_enabled |-> TRUE]
    /\ logged' = Append(logged, [step |-> collected_frames,
                                 eval |-> "eval/reward" \in metrics_to_log])
    /\ counts' = Bump(counts, "iter_logs")
    /\ pc' = "log_metrics"
    /\ UNCHANGED <<cfg, error, i, collector, tensordict, replay_buffer, collected_frames,
                   current_frames, j, log_loss_td, sampled_tensordict, upd, params,
                   grads, trace, metrics_to_log, envs>>

\* variant: the modes set for the evaluation stay in effect after it
EvalExitKeepingModes ==
    /\ pc = "eval_exit"
    /\ pc' = "log_metrics"
    /\ UNCHANGED <<cfg, error, i, collector, tensordict, replay_buffer, collected_frames,
                   current_frames, j, log_loss_td, sampled_tensordict, upd, params,
                   grads, trace, counts, modes, metrics_to_log, logged, envs>>

\* leaving the with block restores the modes in effect before it
EvalExit ==
    /\ pc = "eval_exit"
    /\ modes' = [exploration |-> "RANDOM", grad_enabled |-> TRUE]
    /\ pc' = "log_metrics"
    /\ UNCHANGED <<cfg, error, i, collector, tensordict, replay_buffer, collected_frames,
                   current_frames, j, log_loss_td, sampled_tensordict, upd, params,
                   grads, trace, counts, metrics_to_log, logged, envs>>

\* variant: the metrics are keyed by the iteration index
LogMetricsKeyedByIteration ==
    /\ pc = "log_metrics"
    /\ logged' = Append(logged, [step |-> i,
                                 eval |-> "eval/reward" \in metrics_to_log])
    /\ counts' = Bump(counts, "iter_logs")
    /\ pc' = "for_head"
    /\ UNCHANGED <<cfg, error, i, collector, tensordict, replay_buffer, collected_frames,
                   current_frames, j, log_loss_td, sampled_tensordict, upd, params,
                   grads, trace, modes, metrics_to_log, envs>>

\* log_metrics(logger, metrics_to_log, collected_frames)
LogMetrics ==
    /\ pc = "log_metrics"
    /\ logged' = Append(logged, [step |-> collected_frames,
                                 eval |-> "eval/reward" \in metrics_to_log])
    /\ counts' = Bump(counts, "iter_logs")
    /\ pc' = "for_head"
    /\ UNCHANGED <<cfg, error, i, collector, tensordict, replay_buffer, collected_frames,
                   current_frames, j, log_loss_td, sampled_tensordict, upd, params,
                   grads, trace, modes, metrics_to_log, envs>>

(* ------------------------------ teardown ------------------------------- *)
\* collector.shutdown(), called twice
Shutdown ==
    /\ pc \in {"shutdown", "shutdown_again"}
    /\ collector' = [collector EXCEPT !.shutdowns = @ + 1]
    /\ pc' = IF pc = "shutdown" THEN "shutdown_again" ELSE "close_eval"
    /\ UNCHANGED <<cfg, error, i, tensordict, replay_buffer, collected_frames,
                   current_frames, j, log_loss_td, sampled_tensordict, upd, params,
                   grads, trace, counts, modes, metrics_to_log, logged, envs>>

\* if not eval_env.is_closed: eval_env.close()
CloseEval ==
    /\ pc = "close_eval"
    /\ envs' = [envs EXCEPT !.eval_closed = TRUE]
    /\ pc' = "close_train"
    /\ UNCHANGED <<cfg, error, i, collector, tensordict, replay_buffer, collected_frames,
                   current_frames, j, log_loss_td, sampled_tensordict, upd, params,
                   grads, trace, counts, modes, metrics_to_log, logged>>

\* if not train_env.is_closed: train_env.close()
CloseTrain ==
    /\ pc = "close_train"
    /\ envs' = [envs EXCEPT !.train_closed = TRUE]
    /\ pc' = "done"
    /\ UNCHANGED <<cfg, error, i, collector, tensordict, replay_buffer, collected_frames,
                   current_frames, j, log_loss_td, sampled_tensordict, upd, params,
                   grads, trace, counts, modes, metrics_to_log, logged>>

(* --------------------------- specification ----------------------------- *)
Next ==
    \/ ForHead
    \/ Collect
    \/ UpdatePolicyWeights
    \/ Extend
    \/ Gate
    \/ InnerHead
    \/ Sample
    \/ ToDevice
    \/ UpdateCall
    \/ CriticZeroGrad
    \/ CriticLoss
    \/ CriticBackward
    \/ CriticStep
    \/ AlphaPrimeZeroGrad
    \/ AlphaPrimeLoss
    \/ AlphaPrimeBackward
    \/ AlphaPrimeStep
    \/ PolicyZeroGrad
    \/ ActorLoss
    \/ ActorBackward
    \/ PolicyStep
    \/ AlphaZeroGrad
    \/ AlphaLoss
    \/ AlphaBackward
    \/ AlphaStep
    \/ UpdateReturn
    \/ TargetStep
    \/ UpdatePriority
    \/ Metrics
    \/ EvalCheck
    \/ EvalEnter
    \/ EvalRollout
    \/ EvalExit
    \/ LogMetrics
    \/ Shutdown
    \/ CloseEval
    \/ CloseTrain

Spec == Init /\ [][Next]_vars

(* ============================ properties ============================== *)
StagePcs ==
    {"critic_zero_grad", "critic_loss", "critic_backward", "critic_step",
     "alpha_prime_zero_grad", "alpha_prime_loss", "alpha_prime_backward",
     "alpha_prime_step",
     "policy_zero_grad", "actor_loss", "actor_backward", "policy_step",
     "alpha_zero_grad", "alpha_loss", "alpha_backward", "alpha_step"}

\* positions inside the body of update()
UpdatePcs == StagePcs \cup {"update_return"}

Stage(o) == << <<o, "zero_grad">>, <<o, "loss">>, <<o, "backward">>, <<o, "step">> >>

ExpectedTrace ==
    Stage("critic_optim")
    \o (IF cfg.with_lagrange THEN Stage("alpha_prime_optim") ELSE <<>>)
    \o Stage("policy_optim")
    \o Stage("alpha_optim")

IsPrefix(s, t) == Len(s) <= Len(t) /\ s = SubSeq(t, 1, Len(s))

Min(a, b) == IF a <= b THEN a ELSE b

\* C1: within every update call the optimizer operations run in the order
\* critic -> multiplier (Lagrange mode only) -> policy -> temperature, each
\* stage as zero_grad, loss, backward, step; when the four stages are over
\* every optimizer has stepped exactly once in the call (the multiplier
\* optimizer never steps without Lagrange mode).
C1_UpdateStageOrder ==
    /\ IsPrefix(trace, ExpectedTrace)
    /\ pc \in StagePcs => Len(trace) < Len(ExpectedTrace)
    /\ (pc \notin StagePcs /\ counts.update_calls > 0) =>
          /\ trace = ExpectedTrace
          /\ params.critic = counts.update_calls
          /\ params.policy = counts.update_calls
          /\ params.alpha = counts.update_calls
          /\ params.alpha_prime = (IF cfg.with_lagrange THEN counts.update_calls ELSE 0)

\* a second update call has run its four stages in Lagrange mode
C1_Witness ==
    /\ cfg.with_lagrange
    /\ pc = "update_return"
    /\ counts.update_calls = 2
    /\ Len(trace) = 16

\* C2: actor_loss reads the critic parameters left by this call's critic
\* step (one step past those at the start of the call), and alpha_loss reads
\* the log-probabilities produced by this call's actor_loss.
C2_ActorSeesUpdatedCritic ==
    /\ upd.critic_read_by_actor # -1 =>
          /\ upd.critic_read_by_actor = upd.critic_at_call + 1
          /\ upd.actor_metadata = upd.call
    /\ upd.log_prob_read_by_alpha # -1 =>
          /\ upd.log_prob_read_by_alpha = upd.call
          /\ upd.call = counts.update_calls

C2_Witness ==
    /\ pc = "update_return"
    /\ upd.call = 2
    /\ upd.critic_at_call = 1
    /\ upd.critic_read_by_actor = 2
    /\ upd.log_prob_read_by_alpha = 2

\* C3: the loop runs one iteration per rollout batch and is left once
\* total_frames frames are collected: it never asks the exhausted collector
\* for another batch, and the run that ends has shut the collector down and
\* closed both environments.
C3_TerminatesNormally ==
    /\ error # "StopIteration"
    /\ pc = "collect" => ~CollectorExhausted(collector, cfg.total_frames)
    /\ pc = "shutdown" => collected_frames >= cfg.total_frames
    /\ pc = "done" =>
          /\ collector.shutdowns >= 1
          /\ envs.eval_closed
          /\ envs.train_closed

\* C4: with init_random_frames = 0 and total_frames = k * frames_per_batch a
\* run performs exactly k outer iterations and k * num_updates update calls
\* and leaves min(total_frames, buffer_size) entries in the buffer: the
\* counts never pass these values and are reached when the loop is left.
C4_EndToEndCounts ==
    (/\ cfg.init_random_frames = 0
     /\ cfg.total_frames % cfg.frames_per_batch = 0) =>
        LET k == cfg.total_frames \div cfg.frames_per_batch
        IN  /\ counts.iterations <= k
            /\ counts.update_calls <= k * NumUpdatesOf(cfg)
            /\ Len(replay_buffer.storage) <= Min(cfg.total_frames, cfg.buffer_size)
            /\ pc \in {"shutdown", "shutdown_again", "close_eval", "close_train", "done"} =>
                  /\ counts.iterations = k
                  /\ counts.update_calls = k * NumUpdatesOf(cfg)
                  /\ Len(replay_buffer.storage) =
                        Min(cfg.total_frames, cfg.buffer_size)

\* C5: while the collected frame count is below init_random_frames nothing
\* of the optimization stage runs; an iteration at or above it that gets
\* through its optimization stage has run num_updates samples, updates and
\* target steps, and as many priority write-backs when prioritized.
C5_WarmupGating ==
    /\ collected_frames < cfg.init_random_frames =>
          /\ counts.samples = 0
          /\ counts.update_calls = 0
          /\ counts.target_steps = 0
          /\ counts.priority_updates = 0
    /\ (/\ collected_frames >= cfg.init_random_frames
        /\ pc \in {"metrics", "eval_check", "eval_enter", "eval_rollout",
                   "eval_exit", "log_metrics"}) =>
          /\ counts.iter_samples = NumUpdatesOf(cfg)
          /\ counts.iter_updates = NumUpdatesOf(cfg)
          /\ counts.iter_target_steps = NumUpdatesOf(cfg)
          /\ counts.iter_priority_updates = (IF cfg.prb THEN NumUpdatesOf(cfg) ELSE 0)
    /\ counts.iter_samples <= NumUpdatesOf(cfg)

\* the first iteration stayed below the threshold, the second ran its updates
C5_Witness ==
    /\ pc = "log_metrics"
    /\ i = 1
    /\ cfg.init_random_frames = 2
    /\ collected_frames = 2
    /\ cfg.prb
    /\ NumUpdatesOf(cfg) = 1
    /\ counts.samples = 1
    /\ counts.priority_updates = 1

\* C6 as stated: every rollout runs with the trainer's latest policy
\* parameters.
C6_RolloutHasLatestWeights == tensordict.weights = tensordict.trainer

\* C6 amended: a rollout runs with the parameters of the weight sync made
\* right after the previous rollout; they lag the trainer's parameters by
\* the policy steps of one outer iteration at most (num_updates), and the
\* first rollout runs with the trainer's parameters.
C6_RolloutStalenessBounded ==
    /\ tensordict.weights <= tensordict.trainer
    /\ tensordict.trainer - tensordict.weights <= NumUpdatesOf(cfg)
    /\ counts.rollouts = 1 => tensordict.weights = tensordict.trainer

\* a third rollout that ran one iteration's updates behind the trainer
C6_Witness ==
    /\ pc = "update_policy_weights"
    /\ counts.rollouts = 3
    /\ NumUpdatesOf(cfg) = 1
    /\ tensordict.trainer = 2
    /\ tensordict.weights = 1

\* C7: the target updater steps once after every update call that returns,
\* before the next sample, and never inside update(): the two counts differ
\* only between the return of update() and the target step.
C7_TargetStepAfterEachUpdate ==
    /\ counts.target_steps <= counts.updates_done
    /\ counts.updates_done <= counts.target_steps + 1
    /\ (counts.updates_done = counts.target_steps + 1) <=> (pc = "target_step")
    /\ pc \in UpdatePcs => counts.target_steps = counts.update_calls - 1
    /\ params.target.steps = counts.target_steps

C7_Witness ==
    /\ pc = "target_step"
    /\ counts.updates_done = 2
    /\ counts.target_steps = 1

\* C8: only target_net_updater.step() changes the target parameters.
C8_TargetChangesOnlyInTargetStep ==
    [][params.target' # params.target => pc = "target_step"]_vars

\* all four optimizers have stepped twice and the targets moved once
C8_Witness ==
    /\ pc = "target_step"
    /\ params.critic = 2
    /\ params.alpha_prime = 2
    /\ params.policy = 2
    /\ params.alpha = 2
    /\ params.target.steps = 1
    /\ counts.priority_updates = 1

\* C9: in prioritized mode each sample is followed by one update_priority
\* on the batch that sample returned, before any other sample or extend;
\* without prioritization update_priority never runs.
C9_SamplePriorityPairing ==
    /\ ~cfg.prb => counts.priority_updates = 0
    /\ cfg.prb =>
          /\ counts.priority_updates <= counts.samples
          /\ counts.samples <= counts.priority_updates + 1
          /\ replay_buffer.written_back = counts.priority_updates
          /\ pc \in {"sample", "extend", "for_head"} =>
                counts.samples = counts.priority_updates
          /\ pc = "update_priority" =>
                /\ sampled_tensordict.sample_id = counts.samples
                /\ sampled_tensordict.index = replay_buffer.last_sample
                /\ counts.samples = counts.priority_updates + 1

C9_Witness ==
    /\ cfg.prb
    /\ pc = "inner_head"
    /\ counts.samples = 2
    /\ counts.priority_updates = 2
    /\ replay_buffer.written_back = 2

\* C10: the batch handed to update_priority carries the TD signal computed
\* by the update call just run on it.
C10_PriorityUsesThisUpdate ==
    pc = "update_priority" => sampled_tensordict.td_error = counts.update_calls

\* C11: in an outer iteration i >= 1 that gets through the evaluation test,
\* one evaluation rollout runs when floor(((i-1)*frames_per_batch) /
\* evaluation_interval) < floor((i*frames_per_batch) / evaluation_interval);
\* when that comparison is false and the cumulative frame count has not
\* reached total_frames no evaluation runs; no iteration runs more than one
\* evaluation, however many interval boundaries it crosses.
C11_EvalOnBoundaryCrossing ==
    /\ counts.iter_evals <= 1
    /\ pc = "log_metrics" =>
          LET before == ((i - 1) * cfg.frames_per_batch) \div cfg.log_interval
              now == (i * cfg.frames_per_batch) \div cfg.log_interval
          IN /\ (i >= 1 /\ before < now) => counts.iter_evals = 1
             /\ (~(before < now) /\ collected_frames < cfg.total_frames)
                   => counts.iter_evals = 0

\* an iteration i >= 1 that crossed two interval boundaries at once and
\* evaluated once
C11_Witness ==
    /\ pc = "log_metrics"
    /\ i >= 1
    /\ (i * cfg.frames_per_batch) \div cfg.log_interval
         >= ((i - 1) * cfg.frames_per_batch) \div cfg.log_interval + 2
    /\ counts.iter_evals = 1

\* C12: the outer iteration in which the cumulative collected frame count
\* reaches total_frames runs an evaluation rollout, whether or not the
\* interval comparison holds.
C12_FinalIterationEvaluates ==
    (/\ pc = "log_metrics"
     /\ collected_frames >= cfg.total_frames
     /\ collected_frames - current_frames < cfg.total_frames)
       => counts.iter_evals = 1

\* the sum of the individual loss entries of a returned record
EntriesSum(r) ==
    LET four == Add(Add(Add(r.loss_actor, r.loss_alpha), r.loss_qvalue), r.loss_cql)
    IN  IF cfg.with_lagrange /\ r.loss_alpha_prime # {}
        THEN Add(four, CHOOSE x \in r.loss_alpha_prime : TRUE)
        ELSE four

\* C13: every record returned by update holds all loss entries and a
\* combined loss in which the actor, alpha, q and cql terms (and the
\* alpha_prime term exactly in Lagrange mode) each count once; the
\* individual entries of the record sum to that combined loss; and update
\* returns without error in both modes.
C13_LossRecordAddsUp ==
    /\ ~(pc = "crashed" /\ counts.update_calls > counts.updates_done)
    /\ \A k \in 1..Len(log_loss_td) :
          LET r == log_loss_td[k]
          IN /\ {"loss_actor", "loss_alpha", "loss_qvalue", "loss_cql", "loss"}
                   \subseteq r.keys
             /\ cfg.with_lagrange => "loss_alpha_prime" \in r.keys
             /\ r.loss = [t \in Terms |->
                            IF t = "alpha_prime" /\ ~cfg.with_lagrange THEN 0 ELSE 1]
             /\ EntriesSum(r) = r.loss

\* positions inside the evaluation block
EvalPcs == {"eval_enter", "eval_rollout", "eval_exit"}

\* C14: an evaluation leaves all trained state as it found it: the policy,
\* critic, target, temperature and multiplier parameters, the state of the
\* four optimizers, the replay buffer's contents and priorities, and the
\* collected-frame counter.
C14_EvalLeavesTrainingStateAlone ==
    [][(pc \in EvalPcs) =>
         UNCHANGED <<params, grads, replay_buffer, collected_frames>>]_vars

\* an evaluation has just run on a trained policy and a filled buffer
C14_Witness ==
    /\ pc = "log_metrics"
    /\ counts.iter_evals = 1
    /\ params.policy >= 1
    /\ params.target.steps >= 1
    /\ replay_buffer.storage # <<>>

\* the transitions held by the buffer
Stored == {replay_buffer.storage[k] : k \in 1..Len(replay_buffer.storage)}

\* transitions handed to extend so far, one batch per extend
TotalInserted == counts.extends * cfg.frames_per_batch

\* C15: after any number of extends the buffer holds no more than
\* buffer_size transitions, and they are exactly the most recently inserted
\* min(total inserted, buffer_size) ones (the oldest go first); sample and
\* update_priority leave the stored transitions alone.
C15_BufferCapacityAndFifo ==
    /\ [](/\ Len(replay_buffer.storage) <= cfg.buffer_size
          /\ Len(replay_buffer.storage) = Min(TotalInserted, cfg.buffer_size)
          /\ Stored = (TotalInserted - Min(TotalInserted, cfg.buffer_size) + 1)
                         .. TotalInserted)
    /\ [][(pc \in {"sample", "update_priority"})
            => replay_buffer.storage' = replay_buffer.storage]_vars

\* a full buffer that has evicted its oldest transitions and was then
\* sampled and had priorities written back
C15_Witness ==
    /\ TotalInserted > cfg.buffer_size
    /\ Len(replay_buffer.storage) = cfg.buffer_size
    /\ 1 \notin Stored
    /\ counts.iter_samples >= 1
    /\ counts.iter_priority_updates >= 1

\* C16: in every run that gets past configuration, num_updates is a
\* non-negative integer equal to the product env_per_collector *
\* frames_per_batch * utd_ratio (utd_ratio counted in halves here); a
\* configuration with a fractional or negative product does not reach the
\* training loop with a truncated or negative count.
C16_NumUpdatesIsTheProduct ==
    counts.iterations >= 1 =>
        /\ num_updates >= 0
        /\ 2 * num_updates
             = cfg.env_per_collector * cfg.frames_per_batch * cfg.utd_ratio_halves

\* positions of the inner update loop
InnerPcs ==
    {"inner_head", "sample", "to_device", "update", "target_step", "update_priority"}
    \cup UpdatePcs

\* positions after the iteration's updates
TailPcs == {"eval_check", "log_metrics"} \cup EvalPcs

\* C17: every outer iteration runs collect, weight sync, flatten and extend,
\* the inner updates (each sample, update, target step, priority write-back),
\* the evaluation if due, and the metric emission, in that order: the buffer
\* is extended before any sample of the iteration, and the metrics are
\* emitted exactly once, after all updates and any evaluation.
C17_IterationOrder ==
    LET n == counts.iterations
        c == counts
    IN
    /\ pc = "collect" => c.rollouts = n - 1 /\ c.syncs = n - 1 /\ c.extends = n - 1
    /\ pc = "update_policy_weights" =>
          c.rollouts = n /\ c.syncs = n - 1 /\ c.extends = n - 1
    /\ pc = "extend" => c.rollouts = n /\ c.syncs = n /\ c.extends = n - 1
    /\ pc \in {"gate", "metrics"} \cup InnerPcs \cup TailPcs =>
          c.rollouts = n /\ c.syncs = n /\ c.extends = n
    /\ pc \in {"collect", "update_policy_weights", "extend", "gate"} =>
          c.iter_samples = 0 /\ c.iter_updates = 0
    /\ pc \in {"inner_head", "sample"} =>
          /\ c.iter_samples = c.iter_updates
          /\ c.iter_updates = c.iter_target_steps
          /\ cfg.prb => c.iter_priority_updates = c.iter_target_steps
    /\ pc \in {"to_device", "update"} => c.iter_samples = c.iter_updates + 1
    /\ pc \in UpdatePcs \cup {"target_step"} =>
          /\ c.iter_samples = c.iter_updates
          /\ c.iter_updates = c.iter_target_steps + 1
    /\ pc = "update_priority" =>
          /\ c.iter_samples = c.iter_updates
          /\ c.iter_updates = c.iter_target_steps
          /\ c.iter_target_steps = c.iter_priority_updates + 1
    /\ pc \in TailPcs =>
          /\ c.iter_updates
               = (IF collected_frames >= cfg.init_random_frames
                  THEN NumUpdatesOf(cfg) ELSE 0)
          /\ c.iter_samples = c.iter_updates
          /\ c.iter_target_steps = c.iter_updates
          /\ cfg.prb => c.iter_priority_updates = c.iter_updates
    /\ pc \in {"collect", "update_policy_weights", "extend", "gate", "metrics",
               "eval_check", "eval_enter", "eval_rollout"} \cup InnerPcs =>
          c.iter_evals = 0
    /\ pc \in {"collect", "update_policy_weights", "extend", "gate", "metrics"}
               \cup InnerPcs \cup TailPcs =>
          c.iter_logs = 0 /\ Len(logged) = n - 1
    /\ (pc = "for_head" /\ n >= 1) => c.iter_logs = 1 /\ Len(logged) = n

\* an iteration with two full inner steps, priority write-backs and an
\* evaluation has emitted its metrics
C17_Witness ==
    /\ pc = "for_head"
    /\ counts.iter_logs = 1
    /\ counts.iter_evals = 1
    /\ counts.iter_updates = 2
    /\ counts.iter_priority_updates = 2

\* C18: the metrics are emitted once per outer iteration, keyed by the
\* cumulative collected-frame count, which is the number of transitions
\* handed to extend so far; the step index of successive emissions never
\* decreases and, the batches being non-empty, strictly increases.
C18_MetricsKeyedByCollectedFrames ==
    /\ collected_frames = counts.extends * cfg.frames_per_batch
    /\ counts.iter_logs <= 1
    /\ Len(logged) \in {counts.iterations - 1, counts.iterations}
    /\ \A k \in 1..Len(logged) : logged[k].step = k * cfg.frames_per_batch
    /\ \A k \in 1..(Len(logged) - 1) : logged[k].step < logged[k + 1].step
    /\ (pc = "for_head" /\ counts.iterations >= 1) =>
          /\ Len(logged) = counts.iterations
          /\ logged[Len(logged)].step = collected_frames

\* two emissions, the second keyed by the four frames of two batches
C18_Witness ==
    /\ pc = "for_head"
    /\ Len(logged) = 2
    /\ logged[1].step = 2
    /\ logged[2].step = 4
    /\ collected_frames = 4

\* C19: deterministic exploration and no-gradient mode are in effect only
\* from the entry of an evaluation block to its exit, where the previous
\* modes come back: no collection rollout, buffer operation or update step
\* runs under them.
C19_EvalModesScoped ==
    /\ (modes.exploration = "DETERMINISTIC" \/ ~modes.grad_enabled)
          => pc \in {"eval_rollout", "eval_exit"}
    /\ pc \in {"eval_rollout", "eval_exit"}
          => (modes.exploration = "DETERMINISTIC" /\ ~modes.grad_enabled)
    /\ pc \in {"collect", "extend", "sample", "update_priority"} \cup UpdatePcs
          => (modes.exploration # "DETERMINISTIC" /\ modes.grad_enabled)

\* an update step running, gradients enabled, after an earlier evaluation
C19_Witness ==
    /\ pc = "critic_backward"
    /\ counts.evals >= 1
    /\ modes.exploration = "RANDOM"
    /\ modes.grad_enabled

\* C20: every sample comes after at least one extend, from a buffer whose
\* occupancy is min(collected frames, buffer_size) and at least
\* min(init_random_frames, buffer_size); the buffer is never sampled empty,
\* and batch_size fits the occupancy whenever init_random_frames and
\* buffer_size are both at least batch_size.
C20_SampleFromWarmBuffer ==
    pc = "sample" =>
        LET occupancy == Len(replay_buffer.storage)
        IN /\ counts.extends >= 1
           /\ occupancy = Min(collected_frames, cfg.buffer_size)
           /\ occupancy >= Min(cfg.init_random_frames, cfg.buffer_size)
           /\ occupancy >= 1
           /\ (cfg.init_random_frames >= cfg.batch_size
               /\ cfg.buffer_size >= cfg.batch_size)
                 => cfg.batch_size <= occupancy

\* a sample of batch_size 2 from a buffer of 2 slots that is full and has
\* wrapped, after a warm-up of 2 frames
C20_Witness ==
    /\ pc = "sample"
    /\ cfg.init_random_frames = 2
    /\ cfg.batch_size = 2
    /\ cfg.buffer_size = 2
    /\ collected_frames > cfg.buffer_size
    /\ Len(replay_buffer.storage) = 2

====
